---- MODULE Spec2Model ----
(***************************************************************************)
(* The expression graph of src/src/computational_graph.rs: nodes built by  *)
(* Node::create_*, evaluated by Node::compute (pull over operand edges,    *)
(* memoised in each node's cache) and invalidated by Node::set (push over  *)
(* the dependents lists).                                                  *)
(*                                                                         *)
(* A NodeCelled (Rc<RefCell<Node>>) is the index of the node in `nodes`,   *)
(* in construction order.  An f32 is modelled by the expression that       *)
(* produced it: a literal <<"f32", v>> or an operator applied to f32s.     *)
(* The f32 operations of the code are deterministic functions of their     *)
(* operands' bits, so equal expressions stand for bit-identical floats.    *)
(* An Option<f32> is <<>> (None) or <<v>> (Some(v)).                       *)
(***************************************************************************)
EXTENDS Integers, Sequences, FiniteSets, TLC

\* Bounds of the model.
MaxNodes == 3
MaxVal == 2
MaxStack == 5
MaxRunVal == 1

VARIABLES
    nodes,  \* the nodes constructed so far, nodes[n] the Node behind handle n
    prev,   \* `nodes` as it was when the last operation was called
    last,   \* the last operation: its name, arguments, result and counters
    stack,  \* the frames of the call in progress, innermost last (SpecRun)
    held,   \* the nodes the caller holds an Rc handle to
    freed   \* the nodes whose strong count reached zero: dropped

vars == <<nodes, prev, last, stack, held, freed>>

----------------------------------------------------------------------------
\* f32 values and Option<f32>

Lit(v) == <<"f32", v>>
InputVals == {Lit(v) : v \in 1..MaxVal}
\* The values of the frame-by-frame runs (SpecRun): neither compute nor
\* clear_cache branches on an f32, so fewer of them are drawn there.
RunVals == {Lit(v) : v \in 1..MaxRunVal}

None == <<>>
Some(v) == <<v>>

f32_add(u, v) == <<"add", u, v>>
f32_mul(u, v) == <<"mul", u, v>>
f32_sin(u) == <<"sin", u>>
f32_powf(u, v) == <<"powf", u, v>>

----------------------------------------------------------------------------
\* enum Node

InputNode(xv) == [kind |-> "Input", x |-> xv, dependents |-> <<>>]
AddNode(na, nb) ==
    [kind |-> "Add", a |-> na, b |-> nb, cache |-> None, dependents |-> <<>>]
MulNode(na, nb) ==
    [kind |-> "Mul", a |-> na, b |-> nb, cache |-> None, dependents |-> <<>>]
SinNode(nx) == [kind |-> "Sin", x |-> nx, cache |-> None, dependents |-> <<>>]
PowNode(na, nb) ==
    [kind |-> "Pow", a |-> na, b |-> nb, cache |-> None, dependents |-> <<>>]

IsInput(ns, n) == ns[n].kind = "Input"

\* The operand slots of a node, in field order.
Operands(ns, n) ==
    CASE ns[n].kind = "Input" -> <<>>
      [] ns[n].kind = "Sin" -> <<ns[n].x>>
      [] OTHER -> <<ns[n].a, ns[n].b>>

\* The node's operator applied to the values vs of its operands.
Apply(ns, n, vs) ==
    CASE ns[n].kind = "Add" -> f32_add(vs[1], vs[2])
      [] ns[n].kind = "Mul" -> f32_mul(vs[1], vs[2])
      [] ns[n].kind = "Sin" -> f32_sin(vs[1])
      [] ns[n].kind = "Pow" -> f32_powf(vs[1], vs[2])

\* The handles a caller can hold: the nodes constructed so far.
Handles(ns) == 1..Len(ns)

\* A vector of per-node counters, all zero.
Zeros(ns) == [k \in 1..Len(ns) |-> 0]

----------------------------------------------------------------------------
\* fn get_dependents, add_dependent

get_dependents(ns, n) == ns[n].dependents

\* Mutant of add_dependent: the push is left out.
add_dependent_no_push(ns, n, node) == ns

\* Mutant of add_dependent: a node already listed is not pushed again.
add_dependent_dedup(ns, n, node) ==
    IF \E k \in 1..Len(ns[n].dependents) : ns[n].dependents[k] = node
    THEN ns
    ELSE [ns EXCEPT ![n].dependents = Append(@, node)]

add_dependent(ns, n, node) ==
    [ns EXCEPT ![n].dependents = Append(@, node)]

----------------------------------------------------------------------------
\* fn create_input, create_add, create_mul, create_sin, create_pow

create_input(ns, xv) == Append(ns, InputNode(xv))

\* Mutant of create_add: the new node is wired as its own left operand.
create_add_self(ns, na, nb) ==
    LET res == Len(ns) + 1
        ns1 == Append(ns, AddNode(res, nb))
        ns2 == add_dependent(ns1, res, res)
    IN  add_dependent(ns2, nb, res)

create_add(ns, na, nb) ==
    LET res == Len(ns) + 1
        ns1 == Append(ns, AddNode(na, nb))
        ns2 == add_dependent(ns1, na, res)
    IN  add_dependent(ns2, nb, res)

create_mul(ns, na, nb) ==
    LET res == Len(ns) + 1
        ns1 == Append(ns, MulNode(na, nb))
        ns2 == add_dependent(ns1, na, res)
    IN  add_dependent(ns2, nb, res)

create_sin(ns, nx) ==
    LET res == Len(ns) + 1
        ns1 == Append(ns, SinNode(nx))
    IN  add_dependent(ns1, nx, res)

\* Mutant of create_pow: the new node is registered with its base only,
\* and the cache slot of the exponent is emptied.
create_pow_one_sided(ns, na, nb) ==
    LET res == Len(ns) + 1
        ns1 == Append(ns, PowNode(na, nb))
        ns2 == add_dependent(ns1, na, res)
    IN  IF IsInput(ns2, nb) THEN ns2 ELSE [ns2 EXCEPT ![nb].cache = None]

create_pow(ns, na, nb) ==
    LET res == Len(ns) + 1
        ns1 == Append(ns, PowNode(na, nb))
        ns2 == add_dependent(ns1, na, res)
    IN  add_dependent(ns2, nb, res)

----------------------------------------------------------------------------
\* fn get_cached_value, save_to_cache

get_cached_value(ns, n) ==
    IF IsInput(ns, n) THEN Some(ns[n].x) ELSE ns[n].cache

\* Mutant of save_to_cache: nothing is stored.
save_to_cache_disabled(ns, n, new_value) == ns

\* Mutant of save_to_cache: the value is stored in every empty cache slot
\* of the graph.
save_to_cache_everywhere(ns, n, new_value) ==
    [m \in 1..Len(ns) |->
        IF ~IsInput(ns, m) /\ (m = n \/ ns[m].cache = None)
        THEN [ns[m] EXCEPT !.cache = Some(new_value)] ELSE ns[m]]

save_to_cache(ns, n, new_value) ==
    IF IsInput(ns, n) THEN ns ELSE [ns EXCEPT ![n].cache = Some(new_value)]

----------------------------------------------------------------------------
\* fn compute, add, mul, sin, pow.  An evaluation carries the graph, the
\* value returned and, per node, how many times its operator was applied
\* and how many times compute was called on it.

RECURSIVE compute(_, _, _, _)

add(ns, ap, ca, na, nb) ==
    LET ra == compute(ns, ap, ca, na)
        rb == compute(ra.nodes, ra.applied, ra.calls, nb)
    IN  [nodes |-> rb.nodes, applied |-> rb.applied, calls |-> rb.calls,
         ret |-> f32_add(ra.ret, rb.ret)]

mul(ns, ap, ca, na, nb) ==
    LET ra == compute(ns, ap, ca, na)
        rb == compute(ra.nodes, ra.applied, ra.calls, nb)
    IN  [nodes |-> rb.nodes, applied |-> rb.applied, calls |-> rb.calls,
         ret |-> f32_mul(ra.ret, rb.ret)]

sin(ns, ap, ca, na) ==
    LET ra == compute(ns, ap, ca, na)
    IN  [nodes |-> ra.nodes, applied |-> ra.applied, calls |-> ra.calls,
         ret |-> f32_sin(ra.ret)]

pow(ns, ap, ca, na, nb) ==
    LET ra == compute(ns, ap, ca, na)
        rb == compute(ra.nodes, ra.applied, ra.calls, nb)
    IN  [nodes |-> rb.nodes, applied |-> rb.applied, calls |-> rb.calls,
         ret |-> f32_powf(ra.ret, rb.ret)]

\* Mutant of compute: the cache slot is not consulted, every call on a
\* non-Input node evaluates the operands and applies the operator.
compute_uncached(ns, ap, ca, n) ==
    LET ca1 == [ca EXCEPT ![n] = @ + 1] IN
    IF IsInput(ns, n)
    THEN [nodes |-> ns, applied |-> ap, calls |-> ca1, ret |-> ns[n].x]
    ELSE LET r == CASE ns[n].kind = "Add" -> add(ns, ap, ca1, ns[n].a, ns[n].b)
                    [] ns[n].kind = "Mul" -> mul(ns, ap, ca1, ns[n].a, ns[n].b)
                    [] ns[n].kind = "Sin" -> sin(ns, ap, ca1, ns[n].x)
                    [] ns[n].kind = "Pow" -> pow(ns, ap, ca1, ns[n].a, ns[n].b)
         IN  [nodes |-> save_to_cache(r.nodes, n, r.ret),
              applied |-> [r.applied EXCEPT ![n] = @ + 1],
              calls |-> r.calls,
              ret |-> r.ret]

compute(ns, ap, ca, n) ==
    LET c == get_cached_value(ns, n)
        ca1 == [ca EXCEPT ![n] = @ + 1]
    IN
    IF c # None
    THEN [nodes |-> ns, applied |-> ap, calls |-> ca1, ret |-> c[1]]
    ELSE LET r == CASE ns[n].kind = "Input" ->
                         [nodes |-> ns, applied |-> ap, calls |-> ca1,
                          ret |-> ns[n].x]
                    [] ns[n].kind = "Add" -> add(ns, ap, ca1, ns[n].a, ns[n].b)
                    [] ns[n].kind = "Mul" -> mul(ns, ap, ca1, ns[n].a, ns[n].b)
                    [] ns[n].kind = "Sin" -> sin(ns, ap, ca1, ns[n].x)
                    [] ns[n].kind = "Pow" -> pow(ns, ap, ca1, ns[n].a, ns[n].b)
         IN  [nodes |-> save_to_cache(r.nodes, n, r.ret),
              applied |-> IF IsInput(ns, n) THEN r.applied
                          ELSE [r.applied EXCEPT ![n] = @ + 1],
              calls |-> r.calls,
              ret |-> r.ret]

----------------------------------------------------------------------------
\* fn clear_cache, set.  An invalidation carries the graph and, per node,
\* how many times its cache slot was written with None.

RECURSIVE clear_cache(_, _, _)
RECURSIVE clear_dependents(_, _, _, _)

\* Mutant of clear_dependents: the loop ends after the first dependent.
clear_dependents_first_only(ns, cl, deps, k) ==
    IF k > Len(deps) \/ k > 1
    THEN [nodes |-> ns, cleared |-> cl]
    ELSE clear_cache(ns, cl, deps[k])

\* for dependent in &*self.get_dependents().borrow() { ... }, from the k-th on
clear_dependents(ns, cl, deps, k) ==
    IF k > Len(deps)
    THEN [nodes |-> ns, cleared |-> cl]
    ELSE LET r == clear_cache(ns, cl, deps[k])
         IN  clear_dependents(r.nodes, r.cleared, deps, k + 1)

\* Mutant of clear_cache: the node's own slot is cleared and the loop over
\* its dependents is left out.
clear_cache_no_loop(ns, cl, n) ==
    [nodes |-> IF IsInput(ns, n) THEN ns ELSE [ns EXCEPT ![n].cache = None],
     cleared |-> IF IsInput(ns, n) THEN cl ELSE [cl EXCEPT ![n] = @ + 1]]

\* Mutant of clear_cache: the dependents' slots are cleared, but not the
\* slots of their own dependents.
clear_cache_shallow(ns, cl, n) ==
    LET deps == get_dependents(ns, n)
        hit == {n} \cup {deps[k] : k \in 1..Len(deps)}
    IN  [nodes |-> [m \in 1..Len(ns) |->
                      IF m \in hit /\ ~IsInput(ns, m)
                      THEN [ns[m] EXCEPT !.cache = None] ELSE ns[m]],
         cleared |-> [m \in 1..Len(ns) |->
                      IF m \in hit /\ ~IsInput(ns, m)
                      THEN cl[m] + 1 ELSE cl[m]]]

\* Mutant of clear_cache: a node whose slot is already empty is skipped,
\* with everything behind it.
clear_cache_skip_empty(ns, cl, n) ==
    IF ~IsInput(ns, n) /\ ns[n].cache = None
    THEN [nodes |-> ns, cleared |-> cl]
    ELSE LET ns1 == IF IsInput(ns, n) THEN ns
                    ELSE [ns EXCEPT ![n].cache = None]
             cl1 == IF IsInput(ns, n) THEN cl ELSE [cl EXCEPT ![n] = @ + 1]
         IN  clear_dependents(ns1, cl1, get_dependents(ns1, n), 1)

clear_cache(ns, cl, n) ==
    LET ns1 == IF IsInput(ns, n) THEN ns ELSE [ns EXCEPT ![n].cache = None]
        cl1 == IF IsInput(ns, n) THEN cl ELSE [cl EXCEPT ![n] = @ + 1]
    IN  clear_dependents(ns1, cl1, get_dependents(ns1, n), 1)

\* Mutant of set: the value is stored and clear_cache is not called.
set_no_clear(ns, n, new_value) ==
    IF IsInput(ns, n)
    THEN [nodes |-> [ns EXCEPT ![n].x = new_value], cleared |-> Zeros(ns),
          panicked |-> FALSE]
    ELSE [nodes |-> ns, cleared |-> Zeros(ns), panicked |-> TRUE]

\* Mutant of set: a non-Input node is accepted, and its cache and those of
\* its dependents are cleared.
set_any_node(ns, n, new_value) ==
    LET r == clear_cache(IF IsInput(ns, n) THEN [ns EXCEPT ![n].x = new_value]
                         ELSE ns, Zeros(ns), n)
    IN  [nodes |-> r.nodes, cleared |-> r.cleared, panicked |-> FALSE]

\* Mutant of set: every cache slot of the graph is emptied.
set_clear_all(ns, n, new_value) ==
    IF IsInput(ns, n)
    THEN [nodes |-> [m \in 1..Len(ns) |->
                       IF m = n THEN [ns[m] EXCEPT !.x = new_value]
                       ELSE IF IsInput(ns, m) THEN ns[m]
                       ELSE [ns[m] EXCEPT !.cache = None]],
          cleared |-> [m \in 1..Len(ns) |-> IF IsInput(ns, m) THEN 0 ELSE 1],
          panicked |-> FALSE]
    ELSE [nodes |-> ns, cleared |-> Zeros(ns), panicked |-> TRUE]

\* Mutant of set: the new value is added to the stored one.
set_accumulate(ns, n, new_value) ==
    IF IsInput(ns, n)
    THEN LET r == clear_cache([ns EXCEPT ![n].x = f32_add(@, new_value)],
                              Zeros(ns), n)
         IN  [nodes |-> r.nodes, cleared |-> r.cleared, panicked |-> FALSE]
    ELSE [nodes |-> ns, cleared |-> Zeros(ns), panicked |-> TRUE]

set(ns, n, new_value) ==
    IF IsInput(ns, n)
    THEN LET r == clear_cache([ns EXCEPT ![n].x = new_value], Zeros(ns), n)
         IN  [nodes |-> r.nodes, cleared |-> r.cleared, panicked |-> FALSE]
    ELSE [nodes |-> ns, cleared |-> Zeros(ns), panicked |-> TRUE]

----------------------------------------------------------------------------
\* The caller: any sequence of constructions, compute calls and set calls.
\* A panic (set on a non-Input node) ends the program.
\*
\* `prev` and `last` record the last call for the properties below; they are
\* not program state.  Forget drops the record, and a call is made from a
\* state with no record: as Forget is always possible after a call that
\* returned, the sequences of calls, and the graphs they reach, are
\* unrestricted.

NoOp ==
    [op |-> "none", n |-> 0, new_value |-> None, ret |-> None,
     applied |-> <<>>, calls |-> <<>>, cleared |-> <<>>, panicked |-> FALSE]

Idle == last.op = "none" /\ stack = <<>>

Created(op, ns) ==
    [NoOp EXCEPT !.op = op, !.n = Len(ns),
                 !.applied = Zeros(ns), !.cleared = Zeros(ns)]

Init ==
    /\ nodes = <<>>
    /\ prev = <<>>
    /\ last = NoOp
    /\ stack = <<>>
    /\ held = {}
    /\ freed = {}

CreateInput ==
    /\ Idle
    /\ Len(nodes) < MaxNodes
    /\ \E xv \in InputVals :
          /\ nodes' = create_input(nodes, xv)
          /\ last' = Created("create_input", nodes')
    /\ prev' = nodes
    /\ held' = held \cup {Len(nodes')}
    /\ UNCHANGED <<stack, freed>>

CreateAdd ==
    /\ Idle
    /\ Len(nodes) < MaxNodes
    /\ \E na \in held, nb \in held :
          /\ nodes' = create_add(nodes, na, nb)
          /\ last' = Created("create_add", nodes')
    /\ prev' = nodes
    /\ held' = held \cup {Len(nodes')}
    /\ UNCHANGED <<stack, freed>>

CreateMul ==
    /\ Idle
    /\ Len(nodes) < MaxNodes
    /\ \E na \in held, nb \in held :
          /\ nodes' = create_mul(nodes, na, nb)
          /\ last' = Created("create_mul", nodes')
    /\ prev' = nodes
    /\ held' = held \cup {Len(nodes')}
    /\ UNCHANGED <<stack, freed>>

CreateSin ==
    /\ Idle
    /\ Len(nodes) < MaxNodes
    /\ \E nx \in held :
          /\ nodes' = create_sin(nodes, nx)
          /\ last' = Created("create_sin", nodes')
    /\ prev' = nodes
    /\ held' = held \cup {Len(nodes')}
    /\ UNCHANGED <<stack, freed>>

CreatePow ==
    /\ Idle
    /\ Len(nodes) < MaxNodes
    /\ \E na \in held, nb \in held :
          /\ nodes' = create_pow(nodes, na, nb)
          /\ last' = Created("create_pow", nodes')
    /\ prev' = nodes
    /\ held' = held \cup {Len(nodes')}
    /\ UNCHANGED <<stack, freed>>

Compute ==
    /\ Idle
    /\ \E n \in held :
          LET r == compute(nodes, Zeros(nodes), Zeros(nodes), n) IN
          /\ nodes' = r.nodes
          /\ last' = [NoOp EXCEPT !.op = "compute", !.n = n,
                                  !.ret = Some(r.ret),
                                  !.applied = r.applied,
                                  !.calls = r.calls,
                                  !.cleared = Zeros(nodes)]
    /\ prev' = nodes
    /\ UNCHANGED <<stack, held, freed>>

Set ==
    /\ Idle
    /\ \E n \in held, new_value \in InputVals :
          LET r == set(nodes, n, new_value) IN
          /\ nodes' = r.nodes
          /\ last' = [NoOp EXCEPT !.op = "set", !.n = n,
                                  !.new_value = IF r.panicked THEN None
                                                ELSE Some(new_value),
                                  !.applied = Zeros(nodes),
                                  !.cleared = r.cleared,
                                  !.panicked = r.panicked]
    /\ prev' = nodes
    /\ UNCHANGED <<stack, held, freed>>

Forget ==
    /\ last.op # "none"
    /\ stack = <<>>
    /\ ~last.panicked
    /\ last' = NoOp
    /\ prev' = nodes
    /\ UNCHANGED <<nodes, stack, held, freed>>

Next ==
    \/ CreateInput
    \/ CreateAdd
    \/ CreateMul
    \/ CreateSin
    \/ CreatePow
    \/ Compute
    \/ Set
    \/ Forget

Spec == Init /\ [][Next]_vars

----------------------------------------------------------------------------
\* The same calls executed frame by frame: compute and clear_cache recurse
\* on the call stack, one compute frame per operand pulled and one
\* clear_cache frame per dependent visited.  The host's call stack holds
\* MaxStack frames; a call beyond that aborts the program.  No record of
\* the call is kept here: `prev` follows `nodes` and `last` stays empty.

ComputeFrame(n) == [fn |-> "compute", n |-> n, entered |-> FALSE,
                    vals |-> <<>>, k |-> 0]
ClearFrame(n) == [fn |-> "clear_cache", n |-> n, entered |-> FALSE,
                  vals |-> <<>>, k |-> 0]

Top == stack[Len(stack)]

\* The callee returns v: its frame is popped and the caller's frame, if
\* there is one, receives the value.
Return(v) ==
    LET rest == SubSeq(stack, 1, Len(stack) - 1) IN
    IF rest = <<>> THEN rest
    ELSE [rest EXCEPT ![Len(rest)].vals = Append(@, v)]

\* The top frame f calls frame g.
Call(f, g) ==
    IF Len(stack) < MaxStack
    THEN /\ stack' = Append([stack EXCEPT ![Len(stack)] = f], g)
         /\ UNCHANGED last
    ELSE /\ last' = [NoOp EXCEPT !.op = "stack overflow", !.panicked = TRUE]
         /\ UNCHANGED stack

RunCreateInput ==
    /\ Idle
    /\ Len(nodes) < MaxNodes
    /\ \E xv \in RunVals :
          /\ nodes' = create_input(nodes, xv)
          /\ last' = Created("create_input", nodes')
    /\ prev' = nodes
    /\ held' = held \cup {Len(nodes')}
    /\ UNCHANGED <<stack, freed>>

CallCompute ==
    /\ Idle
    /\ \E n \in held : stack' = <<ComputeFrame(n)>>
    /\ prev' = nodes
    /\ UNCHANGED <<nodes, last, held, freed>>

\* fn set on an Input node: the store, then clear_cache(self).
CallSet ==
    /\ Idle
    /\ \E n \in held, new_value \in RunVals :
          /\ IsInput(nodes, n)
          /\ nodes' = [nodes EXCEPT ![n].x = new_value]
          /\ stack' = <<ClearFrame(n)>>
    /\ prev' = nodes'
    /\ UNCHANGED <<last, held, freed>>

\* fn compute, up to its next call or its return.
StepCompute ==
    /\ stack # <<>>
    /\ ~last.panicked
    /\ Top.fn = "compute"
    /\ LET f == Top
           ops == Operands(nodes, f.n)
           c == get_cached_value(nodes, f.n)
       IN  IF ~f.entered /\ c # None
           THEN /\ stack' = Return(c[1])
                /\ UNCHANGED <<nodes, last>>
           ELSE IF Len(f.vals) < Len(ops)
           THEN /\ Call([f EXCEPT !.entered = TRUE],
                        ComputeFrame(ops[Len(f.vals) + 1]))
                /\ UNCHANGED nodes
           ELSE LET new_value == Apply(nodes, f.n, f.vals) IN
                /\ nodes' = save_to_cache(nodes, f.n, new_value)
                /\ stack' = Return(new_value)
                /\ UNCHANGED last
    /\ prev' = nodes'
    /\ UNCHANGED <<held, freed>>

\* fn clear_cache, up to its next call or its return: on entry the write of
\* None, then the loop over the dependents, one call per step.
StepClear ==
    /\ stack # <<>>
    /\ ~last.panicked
    /\ Top.fn = "clear_cache"
    /\ LET f == Top
           deps == get_dependents(nodes, f.n)
           ns1 == IF f.entered \/ IsInput(nodes, f.n) THEN nodes
                  ELSE [nodes EXCEPT ![f.n].cache = None]
       IN  IF f.k < Len(deps)
           THEN /\ Call([f EXCEPT !.entered = TRUE, !.k = @ + 1],
                        ClearFrame(deps[f.k + 1]))
                /\ nodes' = IF Len(stack) < MaxStack THEN ns1 ELSE nodes
           ELSE /\ stack' = SubSeq(stack, 1, Len(stack) - 1)
                /\ nodes' = ns1
                /\ UNCHANGED last
    /\ prev' = nodes'
    /\ UNCHANGED <<held, freed>>

NextRun ==
    \/ RunCreateInput
    \/ CreateAdd
    \/ CreateMul
    \/ CreateSin
    \/ CreatePow
    \/ Forget
    \/ CallCompute
    \/ CallSet
    \/ StepCompute
    \/ StepClear

\* A call runs to completion: nothing else executes in this single thread
\* until it has returned.
SpecRun ==
    Init /\ [][NextRun]_vars /\ WF_vars(StepCompute) /\ WF_vars(StepClear)

----------------------------------------------------------------------------
\* Ownership.  Every reference to a node is an Rc<RefCell<Node>>, a strong
\* reference: the caller's handles, the operand fields a, b and x, and the
\* entries of the dependents lists (Vec<NodeCelled>).  A node is dropped
\* when its strong count reaches zero, and its fields are dropped with it.

Occurrences(s, n) == Cardinality({k \in 1..Len(s) : s[k] = n})

\* Rc::strong_count of n: the references to n held by the caller and by the
\* fields of the nodes that have not been dropped.
StrongCount(ns, h, fr, n) ==
    LET live == (1..Len(ns)) \ fr
        RECURSIVE FromNodes(_)
        FromNodes(S) ==
            IF S = {} THEN 0
            ELSE LET m == CHOOSE m \in S : TRUE
                 IN  Occurrences(Operands(ns, m), n)
                     + Occurrences(get_dependents(ns, m), n)
                     + FromNodes(S \ {m})
    IN  (IF n \in h THEN 1 ELSE 0) + FromNodes(live)

\* The nodes dropped once the caller holds h: a node whose count is zero is
\* dropped, which releases the references its fields held, and so on.
RECURSIVE Reclaim(_, _, _)
Reclaim(ns, h, fr) ==
    LET dead == {n \in (1..Len(ns)) \ fr : StrongCount(ns, h, fr, n) = 0}
    IN  IF dead = {} THEN fr ELSE Reclaim(ns, h, fr \cup dead)

\* The caller drops its handle to n (a variable goes out of scope, or a
\* temporary moved into a constructor call was its only handle).
DropHandle ==
    /\ Idle
    /\ \E n \in held :
          /\ held' = held \ {n}
          /\ freed' = Reclaim(nodes, held', freed)
          /\ last' = [NoOp EXCEPT !.op = "drop", !.n = n]
    /\ prev' = nodes
    /\ UNCHANGED <<nodes, stack>>

NextOwn ==
    \/ CreateInput
    \/ CreateAdd
    \/ CreateMul
    \/ CreateSin
    \/ CreatePow
    \/ Forget
    \/ DropHandle

\* The caller builds graphs and lets go of handles.
SpecOwn == Init /\ [][NextOwn]_vars

----------------
\* The graph seen from outside: operand edges, dependent edges, and the
\* value of a node's expression evaluated without any cache.

Range(s) == {s[k] : k \in 1..Len(s)}

IsPrefix(s, t) == Len(s) <= Len(t) /\ SubSeq(t, 1, Len(s)) = s

OperandSet(ns, n) == Range(Operands(ns, n))

\* The nodes that hold n as an operand.
Parents(ns, n) == {m \in Handles(ns) : n \in OperandSet(ns, m)}

\* S with the nodes reached from it over edges of `edge`: S is grown by one
\* edge at a time until nothing is added.
RECURSIVE Reach(_, _, _)
Reach(ns, edge(_, _), S) ==
    LET T == S \cup UNION {edge(ns, m) : m \in S}
    IN  IF T = S THEN S ELSE Reach(ns, edge, T)

DependentSet(ns, n) == Range(ns[n].dependents)

\* The nodes reached from n over one or more operand edges.
OperandReach(ns, n) == Reach(ns, OperandSet, OperandSet(ns, n))

\* The nodes reached from n over one or more dependent edges.
DependentReach(ns, n) == Reach(ns, DependentSet, DependentSet(ns, n))

\* The value of n's expression over the current Input values: what compute
\* returns in a graph built afresh, no cache consulted.
RECURSIVE Eval(_, _)
Eval(ns, n) ==
    IF IsInput(ns, n) THEN ns[n].x
    ELSE Apply(ns, n, [k \in 1..Len(Operands(ns, n)) |->
                          Eval(ns, Operands(ns, n)[k])])

NonInputs(ns) == {n \in Handles(ns) : ~IsInput(ns, n)}

Holding(ns) == {n \in NonInputs(ns) : ns[n].cache # None}

\* The last call was op and it returned.
Returned(op) == last.op = op /\ ~last.panicked

----------------------------------------------------------------------------
\* C1: whatever constructions, compute calls and set calls came before,
\* compute(n) returns the value of n's expression evaluated without cache
\* over the current Input values; and right after set(i, v), compute of any
\* node returns the value it has in a fresh graph with i = v.
C1_ComputeIsFreshEvaluation ==
    /\ Returned("compute") => last.ret = Some(Eval(nodes, last.n))
    /\ Returned("set") =>
          /\ nodes[last.n].x = last.new_value[1]
          /\ \A n \in Handles(nodes) :
                compute(nodes, Zeros(nodes), Zeros(nodes), n).ret = Eval(nodes, n)

\* A set changed the value of an Input while a node that depends on it
\* through another node held a cached value.
C1_Witness ==
    /\ Returned("set")
    /\ prev[last.n].x # nodes[last.n].x
    /\ \E m \in Holding(prev) :
          /\ m \in DependentReach(nodes, last.n)
          /\ m \notin DependentSet(nodes, last.n)

\* C2: between operations, a non-Input node whose cache slot holds a value
\* holds its operator applied to the current values of its operands.
C2_CacheConsistent ==
    \A n \in Holding(nodes) :
        nodes[n].cache =
            Some(Apply(nodes, n, [k \in 1..Len(Operands(nodes, n)) |->
                                    Eval(nodes, Operands(nodes, n)[k])]))

\* A set changed an Input's value and a cache elsewhere still holds.
C2_Witness ==
    /\ Returned("set")
    /\ prev[last.n].x # nodes[last.n].x
    /\ Holding(nodes) # {}

\* C3: when set(i, v) returns, i holds v and every node that uses i as an
\* operand, directly or through other nodes, has an empty cache slot.
C3_SetInvalidatesDependents ==
    Returned("set") =>
        /\ nodes[last.n].x = last.new_value[1]
        /\ \A m \in DependentReach(nodes, last.n) : nodes[m].cache = None
        /\ \A m \in Handles(nodes) :
              last.n \in OperandReach(nodes, m) => nodes[m].cache = None

\* A set found a holding cache two dependent edges away and another one
\* edge away.
C3_Witness ==
    /\ Returned("set")
    /\ \E m \in Holding(prev) :
          /\ m \in DependentSet(nodes, last.n)
          /\ \E m2 \in Holding(prev) : m2 \in DependentSet(nodes, m)

\* C4: a compute(n) call that directly follows a compute(n) call returns
\* the same value and applies no operator at all.
C4_SecondComputeIsFree ==
    Returned("compute") =>
        LET r == compute(nodes, Zeros(nodes), Zeros(nodes), last.n) IN
        /\ Some(r.ret) = last.ret
        /\ r.applied = Zeros(nodes)

\* A compute call that applied the operators of its node and of an operand.
C4_Witness ==
    /\ Returned("compute")
    /\ last.applied[last.n] = 1
    /\ \E m \in OperandSet(nodes, last.n) : last.applied[m] = 1

\* C5: set on an Add, Mul, Sin or Pow node panics and leaves every Input
\* value, cache slot and dependents list as it was.
C5_SetOnNonInputPanics ==
    (last.op = "set" /\ ~IsInput(prev, last.n)) =>
        /\ last.panicked
        /\ nodes = prev

\* set panicked on a node that held a cached value and has a dependent.
C5_Witness ==
    /\ last.op = "set"
    /\ last.panicked
    /\ last.n \in Holding(nodes)
    /\ DependentSet(nodes, last.n) # {}

\* The number of operand paths that lead from node m down to node i.
RECURSIVE PathCount(_, _, _)
RECURSIVE PathSum(_, _, _, _)
PathSum(ns, i, ops, k) ==
    IF k > Len(ops) THEN 0
    ELSE PathCount(ns, i, ops[k]) + PathSum(ns, i, ops, k + 1)

PathCount(ns, i, m) ==
    IF m = i THEN 1 ELSE PathSum(ns, i, Operands(ns, m), 1)

\* The operands that set(i, _) invalidates: i and the nodes that depend on i.
Invalidated(ns, i) == {i} \cup DependentReach(ns, i)

\* The parents of an invalidated operand that has two parents or more.
SharedParents(ns, i) ==
    UNION {IF Cardinality(Parents(ns, o)) >= 2 THEN Parents(ns, o) ELSE {} :
              o \in Invalidated(ns, i)}

\* C6 as stated: two parents of one operand have their cache slots cleared
\* exactly once each when that operand is invalidated.
C6_ClearedExactlyOnce ==
    Returned("set") =>
        \A p \in SharedParents(nodes, last.n) : last.cleared[p] = 1

\* C6, amended: each of the two parents has its cache slot cleared once per
\* path of dependent edges from the Input to it, so at least once, and when
\* set returns both slots are empty.
C6_ClearedOncePerPath ==
    Returned("set") =>
        \A p \in SharedParents(nodes, last.n) :
            /\ last.cleared[p] = PathCount(nodes, last.n, p)
            /\ last.cleared[p] >= 1
            /\ nodes[p].cache = None

\* A set invalidated two parents of one operand that both held a value; one
\* of them is reached along two paths.
C6_Witness ==
    /\ Returned("set")
    /\ \E o \in Invalidated(nodes, last.n) :
          \E p \in Parents(nodes, o), q \in Parents(nodes, o) :
              /\ p # q
              /\ {p, q} \subseteq Holding(prev)
              /\ last.cleared[p] = 1
              /\ last.cleared[q] = 2

\* C7: set(i, v) called again right after set(i, v) leaves the Input values
\* and every cache slot as the first call left them.
C7_SetIdempotent ==
    Returned("set") =>
        LET r == set(nodes, last.n, last.new_value[1]) IN
        /\ ~r.panicked
        /\ r.nodes = nodes

\* A set that changed the Input's value and emptied a holding cache.
C7_Witness ==
    /\ Returned("set")
    /\ prev[last.n].x # nodes[last.n].x
    /\ \E m \in Holding(prev) : nodes[m].cache = None

Constructors ==
    {"create_input", "create_add", "create_mul", "create_sin", "create_pow"}

\* C8: m is in n's dependents list exactly when n is an operand of m; a
\* list changes only by the append of the node under construction, and
\* compute and set change no list.
C8_DependentsRegistry ==
    /\ \A n \in Handles(nodes) : DependentSet(nodes, n) = Parents(nodes, n)
    /\ Len(prev) <= Len(nodes)
    /\ \A n \in Handles(prev) :
          \/ nodes[n].dependents = prev[n].dependents
          \/ /\ last.op \in Constructors
             /\ Len(nodes) = Len(prev) + 1
             /\ IsPrefix(prev[n].dependents, nodes[n].dependents)
             /\ \A k \in (Len(prev[n].dependents) + 1)..Len(nodes[n].dependents) :
                   nodes[n].dependents[k] = Len(nodes)
    /\ last.op \in {"compute", "set"} =>
          \A n \in Handles(nodes) : nodes[n].dependents = prev[n].dependents

\* A construction appended to a list that already had an entry.
C8_Witness ==
    /\ last.op \in Constructors
    /\ \E n \in Handles(prev) :
          /\ Len(prev[n].dependents) >= 1
          /\ Len(nodes[n].dependents) > Len(prev[n].dependents)

\* C9: no node is its own operand, directly or through other nodes, and
\* no node is its own dependent either.
C9_Acyclic ==
    \A n \in Handles(nodes) :
        /\ n \notin OperandReach(nodes, n)
        /\ n \notin DependentReach(nodes, n)

\* A construction gave a node an operand that has an operand itself.
C9_Witness ==
    /\ last.op \in Constructors
    /\ \E m \in OperandSet(nodes, last.n) : OperandSet(nodes, m) # {}

\* C10: on every graph built through the constructors, every compute call
\* and every set call on an Input node returns: the frames it pushes are
\* all popped again, and the program has not aborted.
C10_CallsReturn ==
    (stack # <<>>) ~> (stack = <<>> /\ ~last.panicked)

\* An invalidation in progress three frames deep, at a node that two paths
\* of dependent edges reach from the Input being set.
C10_Witness ==
    /\ Len(stack) >= 3
    /\ Top.fn = "clear_cache"
    /\ PathCount(nodes, stack[1].n, Top.n) >= 2

----------------------------------------------------------------------------
\* The nodes that have not been dropped.
Live == Handles(nodes) \ freed

\* C11: a node that has not been dropped is held by the caller or is an
\* operand of a node that has not been dropped; being listed in a
\* dependents list keeps no node alive, so a node with no caller handle and
\* no parent has been reclaimed.
C11_DependentsAreWeak ==
    \A n \in Live : n \in held \/ Parents(nodes, n) \cap Live # {}

\* The operand closure of n: n and the nodes reached over operand edges.
OperandClosure(ns, n) == {n} \cup OperandReach(ns, n)

\* C12: a compute(n) call applies the operator of a non-Input node exactly
\* once if the node is in n's operand closure and its cache slot was empty
\* when the call started, and never otherwise; this holds too for an operand
\* that the call reaches along two paths.
C12_AppliedOnlyWhereNeeded ==
    Returned("compute") =>
        LET closure == OperandClosure(prev, last.n) IN
        \A m \in NonInputs(prev) :
            last.applied[m] =
                IF m \in closure /\ prev[m].cache = None THEN 1 ELSE 0

\* A compute call that reached an operand with an empty cache along two
\* paths, and called compute on it twice.
C12_Witness ==
    /\ Returned("compute")
    /\ \E m \in NonInputs(prev) :
          /\ prev[m].cache = None
          /\ PathCount(prev, m, last.n) >= 2
          /\ last.calls[m] >= 2
          /\ last.applied[m] = 1

\* C13: compute(n) on an Input node, or on a node whose cache slot holds a
\* value, returns the stored value, changes no Input value, cache slot or
\* dependents list, applies no operator and calls compute on no operand.
C13_HitHasNoEffect ==
    (Returned("compute") /\ get_cached_value(prev, last.n) # None) =>
        /\ last.ret = get_cached_value(prev, last.n)
        /\ nodes = prev
        /\ last.applied = Zeros(prev)
        /\ last.calls = [Zeros(prev) EXCEPT ![last.n] = 1]

\* A compute call that hit the cache of a node with two operand slots.
C13_Witness ==
    /\ Returned("compute")
    /\ last.n \in Holding(prev)
    /\ Len(Operands(prev, last.n)) = 2

\* The sequence of c copies of m.
Copies(m, c) == [k \in 1..c |-> m]

\* The effect of a constructor that took the graph from `before` to `after`
\* and returned res.
ConstructionFrame(before, after, res) ==
    /\ res = Len(before) + 1
    /\ Len(after) = res
    /\ after[res].dependents = <<>>
    /\ ~IsInput(after, res) =>
          /\ after[res].cache = None
          /\ \A o \in OperandSet(after, res) :
                /\ o \in Handles(before)
                /\ IsPrefix(before[o].dependents, after[o].dependents)
                /\ Len(after[o].dependents) > Len(before[o].dependents)
                /\ after[o].dependents[Len(after[o].dependents)] = res
    /\ \A n \in Handles(before) :
          /\ [after[n] EXCEPT !.dependents = before[n].dependents] = before[n]
          /\ n \notin OperandSet(after, res) => after[n] = before[n]
    /\ IsInput(after, res) => SubSeq(after, 1, Len(before)) = before

\* C14: a constructor of a unary or binary node returns a new node with an
\* empty cache slot and an empty dependents list, leaves the new node as the
\* last entry of the dependents list of each of its operands, and changes
\* nothing else in any existing node: no cache slot, no Input value, no
\* operand field, and no dependents list other than by that append.  The
\* constructor of an Input changes no existing node.
C14_ConstructionFrame ==
    [][last'.op \in Constructors =>
          ConstructionFrame(nodes, nodes', last'.n)]_vars

\* A binary node was constructed over two distinct operands, one of them
\* holding a cached value, the other having a dependent already.
C14_Witness ==
    /\ last.op \in {"create_add", "create_mul", "create_pow"}
    /\ nodes[last.n].a # nodes[last.n].b
    /\ nodes[last.n].b \in Holding(prev)
    /\ Len(prev[nodes[last.n].a].dependents) >= 1

\* The effect of a set on the Input i that took the graph from `before` to
\* `after`.
SetFrame(before, after, i) ==
    LET dependent == DependentReach(before, i) IN
    /\ Len(after) = Len(before)
    /\ \A n \in Handles(before) :
          /\ after[n].kind = before[n].kind
          /\ after[n].dependents = before[n].dependents
          /\ Operands(after, n) = Operands(before, n)
          /\ (IsInput(before, n) /\ n # i) => after[n] = before[n]
          /\ ~IsInput(before, n) =>
                /\ after[n].cache \in {None, before[n].cache}
                /\ n \notin dependent => after[n].cache = before[n].cache

\* C15: set(i, v) on an Input i changes i's stored value and nothing else
\* but cache slots of nodes that depend on i, which it empties: every other
\* Input value, every dependents list, every operand field and the cache
\* slot of every node that does not depend on i are as before, and no cache
\* slot receives a value.
C15_SetFrame ==
    [][(last'.op = "set" /\ ~last'.panicked) =>
          /\ nodes'[last'.n].x = last'.new_value[1]
          /\ SetFrame(nodes, nodes', last'.n)]_vars

\* A set on one Input while a second Input exists and a node that does not
\* depend on the Input being set holds a cached value.
C15_Witness ==
    /\ Returned("set")
    /\ prev[last.n].x # nodes[last.n].x
    /\ \E j \in Handles(prev) : IsInput(prev, j) /\ j # last.n
    /\ \E m \in Holding(prev) : m \notin DependentReach(prev, last.n)

\* The effect of a compute call on n that returned ret and took the graph
\* from `before` to `after`.
ComputeFrameEffect(before, after, n, ret) ==
    LET closure == OperandClosure(before, n) IN
    /\ Len(after) = Len(before)
    /\ \A m \in Handles(before) :
          /\ IF IsInput(before, m) THEN after[m] = before[m]
             ELSE [after[m] EXCEPT !.cache = None]
                     = [before[m] EXCEPT !.cache = None]
          /\ m \in Holding(before) => after[m].cache = before[m].cache
          /\ m \notin closure => after[m] = before[m]
    /\ get_cached_value(before, n) = None => after[n].cache = ret

\* C16: compute(n) changes no Input value, no dependents list and no
\* operand field, changes no cache slot that held a value, and leaves every
\* node outside n's operand closure as it was; after a miss at n, n's cache
\* slot holds the value returned.
C16_ComputeFrame ==
    [][(last'.op = "compute" /\ ~last'.panicked) =>
          ComputeFrameEffect(nodes, nodes', last'.n, last'.ret)]_vars

\* A compute call missed at its node while another non-Input node, outside
\* the node's operand closure, had an empty cache slot.
C16_Witness ==
    /\ Returned("compute")
    /\ get_cached_value(prev, last.n) = None
    /\ \E m \in NonInputs(prev) :
          /\ m \notin OperandClosure(prev, last.n)
          /\ prev[m].cache = None

\* C17: between operations, if the cache slot of a non-Input node holds a
\* value, so does the cache slot of every non-Input node in its operand
\* closure.
C17_CachedClosedUnderOperands ==
    \A n \in Holding(nodes) :
        \A m \in OperandReach(nodes, n) :
            ~IsInput(nodes, m) => nodes[m].cache # None

\* A set emptied the cache slots of a node and of its non-Input operand,
\* which both held a value.
C17_Witness ==
    /\ Returned("set")
    /\ \E n \in Holding(prev) :
          /\ nodes[n].cache = None
          /\ \E m \in OperandSet(prev, n) :
                m \in Holding(prev) /\ nodes[m].cache = None

\* clear_cache with the loop over the dependents run from the last entry of
\* each list to the first.
RECURSIVE clear_cache_reversed(_, _)
RECURSIVE clear_dependents_reversed(_, _, _)
clear_dependents_reversed(ns, deps, k) ==
    IF k < 1 THEN ns
    ELSE clear_dependents_reversed(clear_cache_reversed(ns, deps[k]),
                                   deps, k - 1)

clear_cache_reversed(ns, n) ==
    LET ns1 == IF IsInput(ns, n) THEN ns ELSE [ns EXCEPT ![n].cache = None]
    IN  clear_dependents_reversed(ns1, ns1[n].dependents,
                                  Len(ns1[n].dependents))

\* The graph with i holding v and the cache slot of every node that depends
\* on i empty: the outcome of an invalidation whatever its order.
Invalidation(ns, i, v) ==
    LET dependent == DependentReach(ns, i) IN
    [m \in 1..Len(ns) |->
        IF m = i THEN [ns[m] EXCEPT !.x = v]
        ELSE IF m \in dependent THEN [ns[m] EXCEPT !.cache = None]
        ELSE ns[m]]

\* C18: when set(i, v) takes the graph from one state to another, then for
\* every other Input j and value w, set(j, w) after it leaves the graph that
\* set(j, w) followed by set(i, v) leaves from the first state; and the
\* graph the set leaves is the one that the traversal of the dependents in
\* the opposite order leaves, which is the graph with the new value stored
\* and every node that depends on i emptied.
C18_InvalidationCommutes ==
    [][(last'.op = "set" /\ ~last'.panicked) =>
          LET i == last'.n
              v == last'.new_value[1]
          IN  /\ \A j \in Handles(nodes) \ {i}, w \in InputVals :
                    IsInput(nodes, j) =>
                        set(nodes', j, w).nodes
                            = set(set(nodes, j, w).nodes, i, v).nodes
              /\ nodes' = clear_cache_reversed([nodes EXCEPT ![i].x = v], i)
              /\ nodes' = Invalidation(nodes, i, v)]_vars

\* A set on an Input emptied the cache slot of a node that depends on a
\* second Input too and held a value.
C18_Witness ==
    /\ Returned("set")
    /\ \E j \in Handles(prev) \ {last.n} :
          /\ IsInput(prev, j)
          /\ \E p \in Holding(prev) :
                /\ p \in DependentReach(prev, last.n)
                /\ p \in DependentReach(prev, j)
                /\ nodes[p].cache = None

\* C19: a constructor appends the new node to the dependents list of a node
\* once per operand slot of the new node that refers to it, and to no other
\* list; so a binary node built over one node twice is listed twice in that
\* node's list, and after every construction every list holds a node as
\* many times as the node has operand slots that refer to the list's owner.
C19_OneEntryPerOperandSlot ==
    last.op \in Constructors =>
        /\ \A n \in Handles(prev) :
              nodes[n].dependents =
                  prev[n].dependents
                      \o Copies(last.n, Occurrences(Operands(nodes, last.n), n))
        /\ \A n \in Handles(nodes), m \in Handles(nodes) :
              Occurrences(nodes[n].dependents, m)
                  = Occurrences(Operands(nodes, m), n)

\* A binary node was constructed with one node, which had a dependent
\* already, in both operand slots, and is listed twice in that node's list.
C19_Witness ==
    /\ last.op \in {"create_add", "create_mul", "create_pow"}
    /\ nodes[last.n].a = nodes[last.n].b
    /\ Len(prev[nodes[last.n].a].dependents) >= 1
    /\ Occurrences(nodes[nodes[last.n].a].dependents, last.n) = 2

====
